---- MODULE Spec2Model ----
(***************************************************************************)
(* Model of pkg/continuoustest/client.go: the continuous-test client of    *)
(* Mimir.  A configuration is produced by RegisterFlags and the parsed     *)
(* command line, NewClient builds the client, WriteSeries splits its input *)
(* in batches and posts each of them, QueryRange runs one range query, and *)
(* clientRoundTripper stamps the tenant header on every request before it  *)
(* reaches the wrapped transport.  The wrapped transport and the backend   *)
(* are the environment: they answer each request with an outcome chosen    *)
(* from a bounded set.                                                     *)
(***************************************************************************)
EXTENDS Integers, Sequences, FiniteSets, TLC

VARIABLES
    flags,           \* the command line: per flag, <<>> (not given) or <<value>>
    cfg,             \* the ClientConfig filled by RegisterFlags and the parse
    client,          \* what NewClient returned: [built, ptr, err, ...]
    pc,              \* per caller: where its call stands
    input,           \* per caller: the slice the caller handed to WriteSeries
    series,          \* per caller: the local variable `series` of WriteSeries
    lastStatusCode,  \* per caller: the local variable `lastStatusCode`
    ret,             \* per caller: the (statusCode, err) WriteSeries returned
    outs,            \* per caller: what each network call of its call came to
    qret,            \* per caller: the (matrix, err) QueryRange returned
    wire,            \* requests handed to the wrapped transport, in order
    got,             \* per caller, 0 for a bare round trip: what the wrapped
                     \* transport returned and what RoundTrip returned
    given,           \* per caller: the samples as they were before the call
    cancelled,       \* per caller: NotCancelled, or how many network calls
                     \* had ended when the caller's context was cancelled
    now,             \* the clock
    deadline,        \* per caller: deadline of the context of its send
    line,            \* tools/release-docs: where the script stands
    trap,            \* tools/release-docs: is the trap of line 90 installed
    head,            \* per repository directory: the commit HEAD is at
    start,           \* per repository directory: HEAD before the script ran
    cwd,             \* tools/release-docs: the working directory
    tagExists,       \* does the release tag exist in the Mimir repository
    MIMIR_PREV_HEAD,
    WEBSITE_PREV_HEAD,
    cleanups,        \* how many times cleanup has run
    signals          \* how many INT or TERM signals the script has received

clientVars == <<flags, cfg, client, pc, input, series, lastStatusCode, ret,
                outs, qret, wire, got, given, cancelled, now, deadline>>

docsVars == <<line, trap, head, start, cwd, tagExists, MIMIR_PREV_HEAD,
              WEBSITE_PREV_HEAD, cleanups, signals>>

vars == <<flags, cfg, client, pc, input, series, lastStatusCode, ret, outs,
          qret, wire, got, given, cancelled, now, deadline, line, trap, head,
          start, cwd, tagExists, MIMIR_PREV_HEAD, WEBSITE_PREV_HEAD,
          cleanups, signals>>

----------------------------------------------------------------------------
(* Bounds of the model. *)

\* longest input slice handed to WriteSeries
MaxLen == 5
\* requests one WriteSeries call may hand to the transport before the model
\* stops following it (only a batch size of 0 ever gets that far)
MaxRequests == 6
\* how far past maxErrMsgLen the longest response body goes
MaxBodyOver == 2
\* longest input slice of a call that runs beside another call
ConcLen == 3
\* last instant the clock ticks to while calls run side by side
MaxTime == 2
\* INT or TERM signals the release-docs script receives in one run
MaxSignals == 1

(* Program constants. *)
maxErrMsgLen == 256
DefaultWriteBatchSize == 1000
DefaultWriteTimeout == 5
DefaultReadTimeout == 30

Calls == {1, 2}

Min(a, b) == IF a < b THEN a ELSE b

----------------------------------------------------------------------------
(* Configuration: RegisterFlags and the flag parse. *)

NilURL == "nil"
BadURL == "::bad"
WriteURL == "http://write"
ReadURL == "http://read"

FlagOr(arg, default) == IF arg = <<>> THEN default ELSE arg[1]

\* RegisterFlags with the two timeout defaults swapped and no batch default
RegisterFlagsOtherDefaults(args) ==
    [TenantID          |-> FlagOr(args.tenant, "anonymous"),
     WriteBaseEndpoint |-> FlagOr(args.write, NilURL),
     WriteBatchSize    |-> FlagOr(args.batch, 0),
     WriteTimeout      |-> FlagOr(args.wtimeout, DefaultReadTimeout),
     ReadBaseEndpoint  |-> FlagOr(args.read, NilURL),
     ReadTimeout       |-> FlagOr(args.rtimeout, DefaultWriteTimeout)]

\* RegisterFlags binds every field to a flag with a default; parsing the
\* command line then overwrites the fields whose flag was given.
RegisterFlags(args) ==
    [TenantID          |-> FlagOr(args.tenant, "anonymous"),
     WriteBaseEndpoint |-> FlagOr(args.write, NilURL),
     WriteBatchSize    |-> FlagOr(args.batch, DefaultWriteBatchSize),
     WriteTimeout      |-> FlagOr(args.wtimeout, DefaultWriteTimeout),
     ReadBaseEndpoint  |-> FlagOr(args.read, NilURL),
     ReadTimeout       |-> FlagOr(args.rtimeout, DefaultReadTimeout)]

\* command lines with both endpoints given
FullArgs ==
    [tenant   : {<<>>, <<"team-a">>},
     write    : {<<WriteURL>>},
     read     : {<<ReadURL>>},
     batch    : {<<>>, <<-1>>, <<0>>, <<1>>, <<2>>},
     wtimeout : {<<>>},
     rtimeout : {<<>>}]

\* command lines that give timeouts
TimeoutArgs ==
    [tenant   : {<<>>},
     write    : {<<WriteURL>>},
     read     : {<<ReadURL>>},
     batch    : {<<>>, <<2>>},
     wtimeout : {<<>>, <<1>>},
     rtimeout : {<<>>, <<2>>}]

\* command lines with an endpoint missing or unparseable
PartialArgs ==
    [tenant   : {<<>>},
     write    : {<<>>, <<WriteURL>>, <<BadURL>>},
     read     : {<<>>, <<ReadURL>>, <<BadURL>>},
     batch    : {<<>>, <<2>>},
     wtimeout : {<<>>},
     rtimeout : {<<>>}]

ArgSets == FullArgs \cup TimeoutArgs \cup PartialArgs

----------------------------------------------------------------------------
(* Headers and the tenant-scoped transport. *)

HeaderNames == {"Content-Encoding", "Content-Type", "User-Agent",
                "X-Prometheus-Remote-Write-Version", "X-Scope-OrgID"}

EmptyHeader == [h \in HeaderNames |-> <<>>]

\* http.Header.Add appends a value, http.Header.Set replaces all of them
HeaderAdd(hdr, key, value) == [hdr EXCEPT ![key] = Append(@, value)]
HeaderSet(hdr, key, value) == [hdr EXCEPT ![key] = <<value>>]

\* RoundTrip with Header.Add in place of Header.Set
RoundTripAdds(rt, req) ==
    [req EXCEPT !.Header = HeaderAdd(@, "X-Scope-OrgID", rt.tenantID)]

\* clientRoundTripper.RoundTrip: the request as the wrapped transport gets it
RoundTrip(rt, req) ==
    [req EXCEPT !.Header = HeaderSet(@, "X-Scope-OrgID", rt.tenantID)]

----------------------------------------------------------------------------
(* Wire format of a batch: protobuf marshalling, then snappy. *)

TagTimeseries == 10

RECURSIVE Marshal(_)
\* proto.Marshal of a WriteRequest: each time series is a tagged field
Marshal(batch) ==
    IF batch = <<>> THEN <<>>
    ELSE <<TagTimeseries, Head(batch)>> \o Marshal(Tail(batch))

RECURSIVE Unmarshal(_)
Unmarshal(data) ==
    IF Len(data) < 2 THEN <<>>
    ELSE <<data[2]>> \o Unmarshal(SubSeq(data, 3, Len(data)))

\* snappy.Encode: the uncompressed length, then the data as one literal
SnappyEncode(data) == <<Len(data)>> \o data

SnappyDecode(block) == Tail(block)

WellFormed(block) ==
    /\ block # <<>>
    /\ block[1] = Len(block) - 1
    /\ block[1] % 2 = 0
    /\ \A i \in 1..(block[1] \div 2) : block[2 * i] = TagTimeseries

\* what the backend reads out of a request body
Decoded(block) == Unmarshal(SnappyDecode(block))

----------------------------------------------------------------------------
(* Responses of the backend and errors of the client. *)

Alphabet == <<97, 34, 92>>      \* a letter, a double quote, a backslash

\* a response body of the given length
BodyOf(len, off) == [i \in 1..len |-> Alphabet[((i + off) % 3) + 1]]

StatusLine(code) ==
    CASE code = 199 -> "199 "
      [] code = 200 -> "200 OK"
      [] code = 299 -> "299 "
      [] code = 300 -> "300 Multiple Choices"
      [] code = 404 -> "404 Not Found"
      [] code = 503 -> "503 Service Unavailable"
      [] OTHER      -> "000 "

\* <<status code, body length, body pattern, does reading the body fail>>
RespShapes ==
    { <<200, 0, 0, FALSE>>, <<299, 2, 1, FALSE>>,
      <<199, 0, 0, FALSE>>, <<300, 1, 1, FALSE>>,
      <<404, maxErrMsgLen - 1, 0, FALSE>>, <<404, maxErrMsgLen, 1, FALSE>>,
      <<503, maxErrMsgLen + 1, 0, FALSE>>,
      <<503, maxErrMsgLen + MaxBodyOver, 2, FALSE>>,
      <<503, 3, 0, TRUE>> }

Responses ==
    { [kind |-> "resp", StatusCode |-> s[1], Status |-> StatusLine(s[1]),
       Body |-> BodyOf(s[2], s[3]), readFails |-> s[4], why |-> ""]
        : s \in RespShapes }

\* http.Client.Do returns an error and no response
NoResponse(why) ==
    [kind |-> "err", StatusCode |-> 0, Status |-> "", Body |-> <<>>,
     readFails |-> FALSE, why |-> why]

DoErrors == { NoResponse(w) : w \in {"transport", "timeout", "canceled"} }

Err(kind, status, body) == [kind |-> kind, status |-> status, body |-> body]
NilErr == Err("nil", "", <<>>)

RECURSIVE Escape(_)
\* quotes and backslashes get a backslash in front (halving keeps the
\* recursion shallow on long bodies)
Escape(bytes) ==
    IF bytes = <<>> THEN <<>>
    ELSE IF Len(bytes) = 1
    THEN (IF bytes[1] \in {34, 92} THEN <<92, bytes[1]>> ELSE bytes)
    ELSE LET m == Len(bytes) \div 2 IN
         Escape(SubSeq(bytes, 1, m)) \o Escape(SubSeq(bytes, m + 1, Len(bytes)))

\* the %q verb: the bytes between double quotes, with quotes and
\* backslashes escaped
Quote(bytes) == <<34>> \o Escape(bytes) \o <<34>>

\* the number of backslashes in a row that end at position m
BackslashRun(text, m) ==
    LET stops == { j \in 1..m : text[j] # 92 } IN
    IF stops = {} THEN m
    ELSE m - (CHOOSE j \in stops : \A k \in stops : k <= j)

RECURSIVE Unescape(_)
\* the inverse of Escape; a text is cut only between two escaped units
Unescape(text) ==
    IF Len(text) <= 1 THEN text
    ELSE IF Len(text) = 2
    THEN (IF text[1] = 92 THEN <<text[2]>> ELSE text)
    ELSE LET m == Len(text) \div 2
             cut == IF text[m] = 92 /\ BackslashRun(text, m) % 2 = 1
                    THEN m + 1 ELSE m IN
         Unescape(SubSeq(text, 1, cut))
             \o Unescape(SubSeq(text, cut + 1, Len(text)))

\* reads a %q rendering back
Unquote(text) == Unescape(SubSeq(text, 2, Len(text) - 1))

\* io.ReadAll without the LimitReader
ReadAllNoLimit(body, n) == body

\* io.ReadAll(io.LimitReader(body, n))
ReadAllLimit(body, n) == SubSeq(body, 1, Min(Len(body), n))

----------------------------------------------------------------------------
(* NewClient. *)

\* api.NewClient parses the address it is given
ApiNewClientFails(address) == address = BadURL

\* flagext.URLValue.String: the empty string for a nil URL
URLString(u) == IF u = NilURL THEN "" ELSE u

\* NewClient without the check of the read endpoint
NewClientNoReadCheck(c) ==
    IF c.WriteBaseEndpoint = NilURL
    THEN [ptr |-> <<>>, err |-> "the write endpoint has not been set"]
    ELSE IF ApiNewClientFails(URLString(c.ReadBaseEndpoint))
    THEN [ptr |-> <<>>, err |-> "failed to create read client"]
    ELSE [ptr |-> <<[cfg |-> c, rt |-> [tenantID |-> c.TenantID]]>>,
          err |-> "nil"]

\* NewClient: the pair (client, error); a nil client is <<>>
NewClient(c) ==
    IF c.WriteBaseEndpoint = NilURL
    THEN [ptr |-> <<>>, err |-> "the write endpoint has not been set"]
    ELSE IF c.ReadBaseEndpoint = NilURL
    THEN [ptr |-> <<>>, err |-> "the read endpoint has not been set"]
    ELSE IF ApiNewClientFails(URLString(c.ReadBaseEndpoint))
    THEN [ptr |-> <<>>, err |-> "failed to create read client"]
    ELSE [ptr |-> <<[cfg |-> c, rt |-> [tenantID |-> c.TenantID]]>>,
          err |-> "nil"]

Built == client.called /\ client.ptr # <<>>
TheClient == client.ptr[1]

----------------------------------------------------------------------------
(* The write path: WriteSeries and sendWriteRequest. *)

\* end := util_math.Min(len(series), c.cfg.WriteBatchSize)
BatchEnd(s, batchSize) == Min(Len(s), batchSize)

\* batch := series[0:end-1], one sample short
BatchDropsLast(s, end) == SubSeq(s, 1, end - 1)

\* batch := series[0:end]
Batch(s, end) == SubSeq(s, 1, end)

\* the loop without series = series[end:]: the same batch again
RestKeepsBatch(s, end) == s

\* series = series[end+1:], one sample too far
RestSkipsOne(s, end) == SubSeq(s, end + 2, Len(s))

\* series = series[end:]
Rest(s, end) == SubSeq(s, end + 1, Len(s))

\* the body marshalled into one buffer of the client: while another call has
\* a request in flight the buffer still holds that request's bytes
PushRequestSharedBuffer(cl, batch) ==
    [Method |-> "POST",
     URL    |-> <<URLString(cl.cfg.WriteBaseEndpoint), "/api/v1/push">>,
     Header |-> HeaderSet(HeaderSet(HeaderSet(HeaderAdd(EmptyHeader,
                   "Content-Encoding", "snappy"),
                   "Content-Type", "application/x-protobuf"),
                   "User-Agent", "mimir-continuous-test"),
                   "X-Prometheus-Remote-Write-Version", "0.1.0"),
     Body   |-> IF /\ wire # <<>>
                   /\ wire[Len(wire)].kind = "push"
                   /\ pc[wire[Len(wire)].call] = "inflight"
                THEN wire[Len(wire)].req.Body
                ELSE SnappyEncode(Marshal(batch))]

\* the request sendWriteRequest builds for a batch
PushRequest(cl, batch) ==
    [Method |-> "POST",
     URL    |-> <<URLString(cl.cfg.WriteBaseEndpoint), "/api/v1/push">>,
     Header |-> HeaderSet(HeaderSet(HeaderSet(HeaderAdd(EmptyHeader,
                   "Content-Encoding", "snappy"),
                   "Content-Type", "application/x-protobuf"),
                   "User-Agent", "mimir-continuous-test"),
                   "X-Prometheus-Remote-Write-Version", "0.1.0"),
     Body   |-> SnappyEncode(Marshal(batch))]

\* ctx, cancel := context.WithTimeout(ctx, c.cfg.WriteTimeout)
WriteDeadline(cl) == cl.cfg.WriteTimeout

\* http.NewRequestWithContext rejects a URL it cannot parse
NewRequestFails(cl) == cl.cfg.WriteBaseEndpoint = BadURL

\* the status test as StatusCode >= 300
ClassifyFrom300(resp) ==
    IF resp.StatusCode >= 300
    THEN IF resp.readFails
         THEN [statusCode |-> resp.StatusCode,
               err |-> Err("bodyread", resp.Status, <<>>)]
         ELSE [statusCode |-> resp.StatusCode,
               err |-> Err("status", resp.Status,
                           Quote(ReadAllLimit(resp.Body, maxErrMsgLen)))]
    ELSE [statusCode |-> resp.StatusCode, err |-> NilErr]

\* sendWriteRequest once the response is there: the 2xx test and the error
Classify(resp) ==
    IF resp.StatusCode \div 100 # 2
    THEN IF resp.readFails
         THEN [statusCode |-> resp.StatusCode,
               err |-> Err("bodyread", resp.Status, <<>>)]
         ELSE [statusCode |-> resp.StatusCode,
               err |-> Err("status", resp.Status,
                           Quote(ReadAllLimit(resp.Body, maxErrMsgLen)))]
    ELSE [statusCode |-> resp.StatusCode, err |-> NilErr]

\* sendWriteRequest from the return of http.Client.Do on
SendResult(out) ==
    IF out.kind = "err"
    THEN [statusCode |-> 0, err |-> Err(out.why, "", <<>>)]
    ELSE Classify(out)

\* sendWriteRequest when it returns before http.Client.Do
EarlyResult(why) == [statusCode |-> 0, err |-> Err(why, "", <<>>)]

\* WriteSeries that reports an error only while samples remain
AfterSendForgetsLastError(last, err, rest) ==
    IF err # NilErr /\ Len(rest) > 0
    THEN [pc |-> "done", ret |-> [statusCode |-> last, err |-> err]]
    ELSE IF Len(rest) > 0
    THEN [pc |-> "loop", ret |-> [statusCode |-> 0, err |-> NilErr]]
    ELSE [pc |-> "done", ret |-> [statusCode |-> last, err |-> NilErr]]

\* WriteSeries without the return on an error
AfterSendKeepsGoing(last, err, rest) ==
    IF Len(rest) > 0
    THEN [pc |-> "loop", ret |-> [statusCode |-> 0, err |-> NilErr]]
    ELSE [pc |-> "done", ret |-> [statusCode |-> last, err |-> err]]

\* WriteSeries after sendWriteRequest returned r: return on an error, go
\* round the loop while samples remain, return the last code otherwise
AfterSend(last, err, rest) ==
    IF err # NilErr
    THEN [pc |-> "done", ret |-> [statusCode |-> last, err |-> err]]
    ELSE IF Len(rest) > 0
    THEN [pc |-> "loop", ret |-> [statusCode |-> 0, err |-> NilErr]]
    ELSE [pc |-> "done", ret |-> [statusCode |-> last, err |-> NilErr]]

\* lastStatusCode assigned by the first batch only
AssignStatusOnce(old, r) == IF old = 0 THEN r.statusCode ELSE old

\* lastStatusCode assigned only when the batch succeeded
AssignStatusOnSuccess(old, r) == IF r.err # NilErr THEN old ELSE r.statusCode

\* lastStatusCode, err = c.sendWriteRequest(...): the new lastStatusCode
AssignStatus(old, r) == r.statusCode

NoRet == [statusCode |-> 0, err |-> NilErr]
NoQRet == [matrix |-> <<>>, err |-> "nil"]

\* the requests a caller's call has handed to the wrapped transport
Sent(c) == SelectSeq(wire, LAMBDA w : w.call = c)

Samples(c, n, rev) ==
    [i \in 1..n |-> 10 * c + (IF rev THEN n + 1 - i ELSE i)]

Inputs(c) == { Samples(c, n, rev) : n \in 0..MaxLen, rev \in BOOLEAN }

----------------------------------------------------------------------------
(* The read path: QueryRange. *)

\* what v1.API.QueryRange returns: an error, or a value with its declared
\* type and its dynamic type
QueryOutcomes ==
    { [kind |-> "qerr", Type |-> "", dyn |-> "", data |-> "", why |-> w]
        : w \in {"transport", "timeout", "canceled"} }
    \cup
    { [kind |-> "value", Type |-> t[1], dyn |-> t[2], data |-> "rows",
       why |-> ""]
        : t \in { <<"matrix", "Matrix">>, <<"vector", "Vector">>,
                  <<"scalar", "Scalar">>, <<"string", "String">>,
                  <<"matrix", "Other">> } }

\* QueryRange without the check of the type assertion
QueryResultNoCast(out) ==
    IF out.kind = "qerr"
    THEN [matrix |-> <<>>, err |-> out.why]
    ELSE IF out.Type # "matrix"
    THEN [matrix |-> <<>>, err |-> "was expecting to get a Matrix"]
    ELSE [matrix |-> <<out.data>>, err |-> "nil"]

\* QueryRange from the return of readClient.QueryRange on
QueryResult(out) ==
    IF out.kind = "qerr"
    THEN [matrix |-> <<>>, err |-> out.why]
    ELSE IF out.Type # "matrix"
    THEN [matrix |-> <<>>, err |-> "was expecting to get a Matrix"]
    ELSE IF out.dyn # "Matrix"
    THEN [matrix |-> <<>>, err |-> "failed to cast type to Matrix"]
    ELSE [matrix |-> <<out.data>>, err |-> "nil"]

\* ctx, cancel := context.WithTimeout(ctx, c.cfg.ReadTimeout)
ReadDeadline(cl) == cl.cfg.ReadTimeout

\* the request the read client builds for a range query
QueryRequest(cl) ==
    [Method |-> "POST",
     URL    |-> <<URLString(cl.cfg.ReadBaseEndpoint), "/api/v1/query_range">>,
     Header |-> HeaderSet(EmptyHeader, "Content-Type",
                          "application/x-www-form-urlencoded"),
     Body   |-> <<>>]

----------------------------------------------------------------------------
(* The state machine. *)

NotCancelled == -1
NoDeadline == -1

\* RoundTrip turning a 5xx response of the wrapped transport into an error
RoundTripReturnChecksStatus(out) ==
    IF out.kind = "resp" /\ out.StatusCode >= 500
    THEN NoResponse("transport")
    ELSE out

\* return rt.rt.RoundTrip(req): what RoundTrip returns, given what the
\* wrapped transport returned
RoundTripReturn(out) == out

\* a deadline kept from the first send of the call
WithTimeoutOfCall(c, timeout) ==
    IF Sent(c) # <<>> THEN Sent(c)[1].deadline ELSE now + timeout

\* context.WithTimeout(ctx, timeout): the deadline of the derived context.
\* The caller's context carries no deadline of its own: a deadline of the
\* caller is a cancellation at that instant.
WithTimeout(c, timeout) == now + timeout

\* a context derived from context.Background()
CtxDoneBackground(c) == deadline[c] # NoDeadline /\ now >= deadline[c]

\* the context of the send in progress is done: its deadline has passed or
\* the caller's context, its parent, is cancelled
CtxDone(c) ==
    \/ cancelled[c] # NotCancelled
    \/ deadline[c] # NoDeadline /\ now >= deadline[c]

\* the one error a network call returns once its context is done
CtxErr(c) == IF cancelled[c] # NotCancelled THEN "canceled" ELSE "timeout"

\* may the network call of caller c end with this outcome now
Allowed(c, out) ==
    IF CtxDone(c)
    THEN out.kind \in {"err", "qerr"} /\ out.why = CtxErr(c)
    ELSE out.why \notin {"timeout", "canceled"}

\* the loop leaving the caller's slice shorter by the batch it sent
CallerSeriesConsumed(in, end) == SubSeq(in, end + 1, Len(in))

\* the caller's slice after one loop iteration: series = series[end:]
\* re-slices the local variable only
CallerSeries(in, end) == in

\* what reaches the wrapped transport; `orig` is the request RoundTrip was
\* called with and `prior` the tenant header it had
Delivered(c, kind, req, timeout, dl) ==
    [call |-> c, kind |-> kind, req |-> RoundTrip(TheClient.rt, req),
     prior |-> req.Header["X-Scope-OrgID"], timeout |-> timeout,
     orig |-> req, at |-> now, deadline |-> dl]

\* the outcomes followed for a bare round trip
DirectOutcomes ==
    { r \in Responses : r.StatusCode = 503 /\ r.readFails }
        \cup {NoResponse("transport")}

\* the directories of the two repositories of tools/release-docs
MIMIR_DIR == "mimir"
WEBSITE_DIR == "website"
Dirs == {MIMIR_DIR, WEBSITE_DIR}

\* the release-docs script is not run
DocsOff ==
    /\ line = "off"
    /\ trap = FALSE
    /\ head = [d \in Dirs |-> ""]
    /\ start = [d \in Dirs |-> ""]
    /\ cwd = MIMIR_DIR
    /\ tagExists = FALSE
    /\ MIMIR_PREV_HEAD = ""
    /\ WEBSITE_PREV_HEAD = ""
    /\ cleanups = 0
    /\ signals = 0

InitCalls(args, pc0) ==
    /\ flags \in args
    /\ cfg = RegisterFlags(flags)
    /\ client = [called |-> FALSE, ptr |-> <<>>, err |-> "nil"]
    /\ pc = pc0
    /\ input = [c \in Calls |-> <<>>]
    /\ series = [c \in Calls |-> <<>>]
    /\ lastStatusCode = [c \in Calls |-> 0]
    /\ ret = [c \in Calls |-> NoRet]
    /\ outs = [c \in Calls |-> <<>>]
    /\ qret = [c \in Calls |-> NoQRet]
    /\ wire = <<>>
    /\ got = [c \in Calls \cup {0} |-> <<>>]
    /\ given = [c \in Calls |-> <<>>]
    /\ cancelled = [c \in Calls |-> NotCancelled]
    /\ now = 0
    /\ deadline = [c \in Calls |-> NoDeadline]

\* one caller
Init ==
    /\ InitCalls(ArgSets, [c \in Calls |-> IF c = 1 THEN "idle" ELSE "off"])
    /\ DocsOff

NewClientCall ==
    /\ ~client.called
    /\ client' = [called |-> TRUE] @@ NewClient(cfg)
    /\ UNCHANGED <<docsVars, flags, cfg, pc, input, series, lastStatusCode, ret, outs,
                   qret, wire, got, given, cancelled, now, deadline>>

\* a request that already carries tenant header values goes through the
\* tenant-scoped transport, and the wrapped transport answers it
RoundTripDirect(prior, out) ==
    /\ Built
    /\ wire = <<>>
    /\ \A c \in Calls : pc[c] \in {"idle", "off"}
    /\ wire' = Append(wire, Delivered(0, "direct",
                  [Method |-> "GET", URL |-> <<ReadURL, "/">>,
                   Header |-> [EmptyHeader EXCEPT !["X-Scope-OrgID"] = prior],
                   Body |-> <<>>], 0, NoDeadline))
    /\ got' = [got EXCEPT ![0] = Append(@, [inner |-> out,
                                           returned |-> RoundTripReturn(out)])]
    /\ UNCHANGED <<docsVars, flags, cfg, client, pc, input, series, lastStatusCode,
                   ret, outs, qret, given, cancelled, now, deadline>>

\* WriteSeries up to the loop head
WriteSeries(c, in) ==
    /\ Built
    /\ pc[c] = "idle"
    /\ input' = [input EXCEPT ![c] = in]
    /\ given' = [given EXCEPT ![c] = in]
    /\ series' = [series EXCEPT ![c] = in]
    /\ lastStatusCode' = [lastStatusCode EXCEPT ![c] = 0]
    /\ IF Len(in) > 0
       THEN /\ pc' = [pc EXCEPT ![c] = "loop"]
            /\ ret' = ret
       ELSE /\ pc' = [pc EXCEPT ![c] = "done"]
            /\ ret' = [ret EXCEPT ![c] = [statusCode |-> 0, err |-> NilErr]]
    /\ UNCHANGED <<docsVars, flags, cfg, client, outs, qret, wire, got, cancelled, now,
                   deadline>>

\* one loop iteration up to http.Client.Do
SendBatch(c, marshalFails) ==
    /\ pc[c] = "loop"
    /\ Len(Sent(c)) < MaxRequests
    /\ LET end == BatchEnd(series[c], TheClient.cfg.WriteBatchSize) IN
       IF end < 0
       THEN \* series[0:end] with a negative end panics
            /\ pc' = [pc EXCEPT ![c] = "panic"]
            /\ UNCHANGED <<input, series, lastStatusCode, ret, wire, outs,
                           deadline>>
       ELSE /\ series' = [series EXCEPT ![c] = Rest(series[c], end)]
            /\ input' = [input EXCEPT ![c] = CallerSeries(input[c], end)]
            /\ IF marshalFails \/ NewRequestFails(TheClient)
               THEN LET why == IF marshalFails THEN "marshal"
                                ELSE "newrequest"
                        r == EarlyResult(why)
                        last == AssignStatus(lastStatusCode[c], r)
                        n == AfterSend(last, r.err, Rest(series[c], end)) IN
                    /\ lastStatusCode' = [lastStatusCode EXCEPT ![c] = last]
                    /\ pc' = [pc EXCEPT ![c] = n.pc]
                    /\ ret' = [ret EXCEPT ![c] = n.ret]
                    /\ outs' = [outs EXCEPT ![c] = Append(@, NoResponse(why))]
                    /\ UNCHANGED <<wire, deadline>>
               ELSE LET dl == WithTimeout(c, WriteDeadline(TheClient)) IN
                    /\ wire' = Append(wire, Delivered(c, "push",
                              PushRequest(TheClient, Batch(series[c], end)),
                              WriteDeadline(TheClient), dl))
                    /\ deadline' = [deadline EXCEPT ![c] = dl]
                    /\ pc' = [pc EXCEPT ![c] = "inflight"]
                    /\ UNCHANGED <<lastStatusCode, ret, outs>>
    /\ UNCHANGED <<docsVars, flags, cfg, client, qret, got, given, cancelled, now>>

\* http.Client.Do returns: the rest of sendWriteRequest, then WriteSeries up
\* to its return or to the next loop iteration
Respond(c, out) ==
    /\ pc[c] = "inflight"
    /\ Allowed(c, out)
    /\ LET r == SendResult(RoundTripReturn(out))
           last == AssignStatus(lastStatusCode[c], r)
           n == AfterSend(last, r.err, series[c]) IN
       /\ lastStatusCode' = [lastStatusCode EXCEPT ![c] = last]
       /\ pc' = [pc EXCEPT ![c] = n.pc]
       /\ ret' = [ret EXCEPT ![c] = n.ret]
    /\ outs' = [outs EXCEPT ![c] = Append(@, out)]
    /\ got' = [got EXCEPT ![c] = Append(@, [inner |-> out,
                                           returned |-> RoundTripReturn(out)])]
    /\ deadline' = [deadline EXCEPT ![c] = NoDeadline]
    /\ UNCHANGED <<docsVars, flags, cfg, client, input, series, qret, wire, given,
                   cancelled, now>>

\* QueryRange up to the network call
QueryRange(c) ==
    /\ Built
    /\ pc[c] = "idle"
    /\ LET dl == WithTimeout(c, ReadDeadline(TheClient)) IN
       /\ wire' = Append(wire, Delivered(c, "query", QueryRequest(TheClient),
                                 ReadDeadline(TheClient), dl))
       /\ deadline' = [deadline EXCEPT ![c] = dl]
    /\ pc' = [pc EXCEPT ![c] = "qinflight"]
    /\ UNCHANGED <<docsVars, flags, cfg, client, input, series, lastStatusCode, ret,
                   outs, qret, got, given, cancelled, now>>

\* readClient.QueryRange returns: the rest of QueryRange
QueryRespond(c, out) ==
    /\ pc[c] = "qinflight"
    /\ Allowed(c, out)
    /\ qret' = [qret EXCEPT ![c] = QueryResult(out)]
    /\ pc' = [pc EXCEPT ![c] = "qdone"]
    /\ outs' = [outs EXCEPT ![c] = Append(@, out)]
    /\ deadline' = [deadline EXCEPT ![c] = NoDeadline]
    /\ UNCHANGED <<docsVars, flags, cfg, client, input, series, lastStatusCode, ret,
                   wire, got, given, cancelled, now>>

\* the backend stays silent until the deadline of caller c's send
Expire(c) ==
    /\ pc[c] \in {"inflight", "qinflight"}
    /\ now < deadline[c]
    /\ \A d \in Calls :
          pc[d] \in {"inflight", "qinflight"} => deadline[c] <= deadline[d]
    /\ now' = deadline[c]
    /\ UNCHANGED <<docsVars, flags, cfg, client, pc, input, series, lastStatusCode,
                   ret, outs, qret, wire, got, given, cancelled, deadline>>

\* one unit of time passes while a request is in flight; the code between
\* two network calls does not block
Tick ==
    /\ \E c \in Calls : pc[c] \in {"inflight", "qinflight"}
    /\ now < MaxTime
    /\ now' = now + 1
    /\ UNCHANGED <<docsVars, flags, cfg, client, pc, input, series, lastStatusCode,
                   ret, outs, qret, wire, got, given, cancelled, deadline>>

\* the caller cancels the context it handed to its call
Cancel(c) ==
    /\ pc[c] \in {"loop", "inflight", "qinflight"}
    /\ cancelled[c] = NotCancelled
    /\ cancelled' = [cancelled EXCEPT ![c] = Len(outs[c])]
    /\ UNCHANGED <<docsVars, flags, cfg, client, pc, input, series, lastStatusCode,
                   ret, outs, qret, wire, got, given, now, deadline>>

Next ==
    \/ NewClientCall
    \/ \E prior \in {<<"other">>, <<"other", "team-a">>},
          out \in DirectOutcomes : RoundTripDirect(prior, out)
    \/ \E c \in Calls : \E in \in Inputs(c) : WriteSeries(c, in)
    \/ \E c \in Calls, marshalFails \in BOOLEAN : SendBatch(c, marshalFails)
    \/ \E c \in Calls, out \in Responses \cup DoErrors : Respond(c, out)
    \/ \E c \in Calls : QueryRange(c)
    \/ \E c \in Calls, out \in QueryOutcomes : QueryRespond(c, out)
    \/ \E c \in Calls : Expire(c)

Spec == Init /\ [][Next]_vars

----------------------------------------------------------------------------
(* Two callers share one client. *)

\* command lines of the shared client
ConcArgs ==
    [tenant   : {<<"team-a">>},
     write    : {<<WriteURL>>},
     read     : {<<ReadURL>>},
     batch    : {<<1>>, <<2>>},
     wtimeout : {<<2>>},
     rtimeout : {<<3>>}]

ConcInputs(c) == { Samples(c, n, FALSE) : n \in 0..ConcLen }

\* the outcomes followed while two calls run side by side
ConcResponses ==
    { r \in Responses : r.StatusCode \in {200, 300} } \cup DoErrors

ConcQueryOutcomes ==
    { o \in QueryOutcomes : o.kind = "qerr" \/ o.dyn \in {"Matrix", "Vector"} }

InitConc == InitCalls(ConcArgs, [c \in Calls |-> "idle"]) /\ DocsOff

NextConc ==
    \/ NewClientCall
    \/ \E c \in Calls : \E in \in ConcInputs(c) : WriteSeries(c, in)
    \/ \E c \in Calls : SendBatch(c, FALSE)
    \/ \E c \in Calls, out \in ConcResponses : Respond(c, out)
    \/ \E c \in Calls : QueryRange(c)
    \/ \E c \in Calls, out \in ConcQueryOutcomes : QueryRespond(c, out)
    \/ \E c \in Calls : Cancel(c)
    \/ Tick

SpecConc == InitConc /\ [][NextConc]_vars

TypeOK ==
    /\ \A c \in Calls : pc[c] \in {"off", "idle", "loop", "inflight", "done",
                                    "panic", "qinflight", "qdone"}
    /\ client.called \in BOOLEAN
    /\ now \in Nat

----------------------------------------------------------------------------
(* tools/release-docs: the script that releases the documentation. *)

\* the commits of each repository; the two repositories share no commit
Commits(dir) ==
    IF dir = MIMIR_DIR
    THEN {"m1", "m2", "mtag", "mnew"}
    ELSE {"w1", "w2", "wbase", "wnew"}

\* the commit of the release tag, of the base branch of the website, and the
\* commit `git commit` creates in a repository
TagCommit == "mtag"
BaseCommit == "wbase"
NewCommit(dir) == IF dir = MIMIR_DIR THEN "mnew" ELSE "wnew"

\* git rev-parse HEAD in a directory
RevParseHead(h, dir) == h[dir]

\* cd dir && git checkout target: fails, and leaves HEAD alone, when the
\* repository has no such commit
Checkout(h, dir, target) ==
    IF target \in Commits(dir) THEN [h EXCEPT ![dir] = target] ELSE h

\* lines 76 and 79: the value each PREV_HEAD variable gets
PrevHeads(h) ==
    [mimir   |-> RevParseHead(h, MIMIR_DIR),
     website |-> RevParseHead(h, MIMIR_DIR)]

\* the function cleanup: with set +e both checkouts are attempted
Cleanup(h) ==
    Checkout(Checkout(h, WEBSITE_DIR, WEBSITE_PREV_HEAD),
             MIMIR_DIR, MIMIR_PREV_HEAD)

\* the script is started: both repositories exist and are at some commit
InitDocs ==
    /\ InitCalls({CHOOSE a \in FullArgs : a.tenant = <<>> /\ a.batch = <<>>},
                 [c \in Calls |-> "off"])
    /\ line = "args"
    /\ trap = FALSE
    /\ head \in [Dirs -> {"m1", "m2", "mtag", "w1", "w2", "wbase"}]
    /\ head[MIMIR_DIR] \in {"m1", "m2", "mtag"}
    /\ head[WEBSITE_DIR] \in {"w1", "w2", "wbase"}
    /\ start = head
    /\ cwd \in Dirs
    /\ tagExists \in BOOLEAN
    /\ MIMIR_PREV_HEAD = ""
    /\ WEBSITE_PREV_HEAD = ""
    /\ cleanups = 0
    /\ signals = 0

\* lines 20-23: the usage check
CheckArgs(nargs) ==
    /\ line = "args"
    /\ line' = IF nargs # 2 THEN "exiting" ELSE "clone"
    /\ UNCHANGED <<clientVars, trap, head, start, cwd, tagExists,
                   MIMIR_PREV_HEAD, WEBSITE_PREV_HEAD, cleanups, signals>>

\* lines 73-74: ensure_cloned for both repositories; under set -e a failed
\* command ends the script
EnsureCloned(ok) ==
    /\ line = "clone"
    /\ line' = IF ok THEN "record" ELSE "exiting"
    /\ UNCHANGED <<clientVars, trap, head, start, cwd, tagExists,
                   MIMIR_PREV_HEAD, WEBSITE_PREV_HEAD, cleanups, signals>>

\* lines 76-80: both PREV_HEAD variables are set
RecordHeads ==
    /\ line = "record"
    /\ MIMIR_PREV_HEAD' = PrevHeads(head).mimir
    /\ WEBSITE_PREV_HEAD' = PrevHeads(head).website
    /\ line' = "trap"
    /\ UNCHANGED <<clientVars, trap, head, start, cwd, tagExists, cleanups,
                   signals>>

\* line 90: trap "cleanup" INT TERM EXIT
InstallTrap ==
    /\ line = "trap"
    /\ trap' = TRUE
    /\ line' = "tag"
    /\ UNCHANGED <<clientVars, head, start, cwd, tagExists, MIMIR_PREV_HEAD,
                   WEBSITE_PREV_HEAD, cleanups, signals>>

\* lines 92-93: cd MIMIR_DIR, git checkout TAG || exit 1
CheckoutTag ==
    /\ line = "tag"
    /\ cwd' = MIMIR_DIR
    /\ IF tagExists
       THEN /\ head' = Checkout(head, MIMIR_DIR, TagCommit)
            /\ line' = "branch"
       ELSE /\ head' = head
            /\ line' = "exiting"
    /\ UNCHANGED <<clientVars, trap, start, tagExists, MIMIR_PREV_HEAD,
                   WEBSITE_PREV_HEAD, cleanups, signals>>

\* lines 95-97: cd WEBSITE_DIR, git checkout -B of the release branch
CheckoutBranch(ok) ==
    /\ line = "branch"
    /\ cwd' = WEBSITE_DIR
    /\ IF ok
       THEN /\ head' = Checkout(head, WEBSITE_DIR, BaseCommit)
            /\ line' = "edit"
       ELSE /\ head' = head
            /\ line' = "exiting"
    /\ UNCHANGED <<clientVars, trap, start, tagExists, MIMIR_PREV_HEAD,
                   WEBSITE_PREV_HEAD, cleanups, signals>>

\* lines 100-110: the documentation is copied and the aliases updated, in
\* the working tree of the current directory
ReleaseDocs(ok) ==
    /\ line = "edit"
    /\ line' = IF ok /\ cwd = WEBSITE_DIR THEN "commit" ELSE "exiting"
    /\ UNCHANGED <<clientVars, trap, head, start, cwd, tagExists,
                   MIMIR_PREV_HEAD, WEBSITE_PREV_HEAD, cleanups, signals>>

\* lines 113-114: git add, git commit in the current directory
Commit(ok) ==
    /\ line = "commit"
    /\ IF ok
       THEN /\ head' = [head EXCEPT ![cwd] = NewCommit(cwd)]
            /\ line' = "push"
       ELSE /\ head' = head
            /\ line' = "exiting"
    /\ UNCHANGED <<clientVars, trap, start, cwd, tagExists, MIMIR_PREV_HEAD,
                   WEBSITE_PREV_HEAD, cleanups, signals>>

\* line 115: wet_run git push, the last command of the script
Push ==
    /\ line = "push"
    /\ line' = "exiting"
    /\ UNCHANGED <<clientVars, trap, head, start, cwd, tagExists,
                   MIMIR_PREV_HEAD, WEBSITE_PREV_HEAD, cleanups, signals>>

\* the script exits: the EXIT trap, when installed, runs cleanup
ExitScript ==
    /\ line = "exiting"
    /\ line' = "exited"
    /\ IF trap
       THEN /\ head' = Cleanup(head)
            /\ cwd' = MIMIR_DIR
            /\ cleanups' = cleanups + 1
       ELSE UNCHANGED <<head, cwd, cleanups>>
    /\ UNCHANGED <<clientVars, trap, start, tagExists, MIMIR_PREV_HEAD,
                   WEBSITE_PREV_HEAD, signals>>

\* INT or TERM arrives. With the trap installed cleanup runs and the script
\* goes on with its next command; without it the signal ends the script.
Signal ==
    /\ line \notin {"off", "exited"}
    /\ signals < MaxSignals
    /\ signals' = signals + 1
    /\ IF trap
       THEN /\ head' = Cleanup(head)
            /\ cwd' = MIMIR_DIR
            /\ cleanups' = cleanups + 1
            /\ line' = line
       ELSE /\ line' = "exited"
            /\ UNCHANGED <<head, cwd, cleanups>>
    /\ UNCHANGED <<clientVars, trap, start, tagExists, MIMIR_PREV_HEAD,
                   WEBSITE_PREV_HEAD>>

NextDocs ==
    \/ \E nargs \in {1, 2} : CheckArgs(nargs)
    \/ \E ok \in BOOLEAN : EnsureCloned(ok)
    \/ RecordHeads
    \/ InstallTrap
    \/ CheckoutTag
    \/ \E ok \in BOOLEAN : CheckoutBranch(ok)
    \/ \E ok \in BOOLEAN : ReleaseDocs(ok)
    \/ \E ok \in BOOLEAN : Commit(ok)
    \/ Push
    \/ ExitScript
    \/ Signal

SpecDocs == InitDocs /\ [][NextDocs]_vars

----------------------------------------------------------------------------
(* Properties. *)

BatchSize == TheClient.cfg.WriteBatchSize
Is2xx(code) == code \in 200..299
Last(s) == s[Len(s)]
IsPrefix(p, s) == Len(p) <= Len(s) /\ p = SubSeq(s, 1, Len(p))
Ceil(n, b) == (n + b - 1) \div b

\* the i-th contiguous slice of b samples
Slice(in, i, b) == SubSeq(in, (i - 1) * b + 1, Min(i * b, Len(in)))

\* a write call has returned
Returned(c) == pc[c] = "done"

\* C1: a WriteSeries call of N samples with a batch size B >= 1 that returns
\* without an error has sent exactly ceil(N/B) requests, and the body of the
\* i-th of them, decompressed and decoded, is the i-th slice of the input.
C1_RequestsAreTheSlices ==
    \A c \in Calls :
        (Returned(c) /\ ret[c].err = NilErr /\ BatchSize >= 1) =>
            /\ Len(Sent(c)) = Ceil(Len(input[c]), BatchSize)
            /\ \A i \in 1..Len(Sent(c)) :
                  /\ Is2xx(outs[c][i].StatusCode)
                  /\ WellFormed(Sent(c)[i].req.Body)
                  /\ Decoded(Sent(c)[i].req.Body)
                        = Slice(input[c], i, BatchSize)

C1_Witness ==
    \E c \in Calls :
        /\ Returned(c) /\ ret[c].err = NilErr
        /\ BatchSize = 2 /\ Len(input[c]) = 5 /\ Len(Sent(c)) = 3
        /\ Len(Decoded(Sent(c)[3].req.Body)) = 1

\* C2: when the k-th network call of a WriteSeries call gets a non-2xx
\* response, the call has returned, with a non-nil error and that response's
\* status code, and exactly k requests were sent.
C2_StopsAtFirstNon2xx ==
    \A c \in Calls : \A k \in 1..Len(outs[c]) :
        (outs[c][k].kind = "resp" /\ ~Is2xx(outs[c][k].StatusCode)) =>
            /\ \A j \in 1..(k - 1) :
                  outs[c][j].kind = "resp" /\ Is2xx(outs[c][j].StatusCode)
            /\ Len(Sent(c)) = k
            /\ Returned(c)
            /\ ret[c].err # NilErr
            /\ ret[c].statusCode = outs[c][k].StatusCode

C2_Witness ==
    \E c \in Calls :
        /\ Len(outs[c]) >= 2
        /\ Last(outs[c]).kind = "resp" /\ ~Is2xx(Last(outs[c]).StatusCode)
        /\ Returned(c) /\ series[c] # <<>>

\* C3: a WriteSeries call that sent batches and returns a nil error returns
\* the status code of the response to its last batch.
C3_ReturnsLastStatus ==
    \A c \in Calls :
        (Returned(c) /\ ret[c].err = NilErr /\ outs[c] # <<>>) =>
            /\ Last(outs[c]).kind = "resp"
            /\ ret[c].statusCode = Last(outs[c]).StatusCode

C3_Witness ==
    \E c \in Calls :
        /\ Returned(c) /\ ret[c].err = NilErr /\ Len(outs[c]) >= 2
        /\ outs[c][1].StatusCode # Last(outs[c]).StatusCode
        /\ ret[c].statusCode = 299

\* C4: when the k-th batch of a WriteSeries call fails without a response
\* (marshalling, building the request, transport, timeout), the call has
\* returned status code 0 with a non-nil error, nothing was attempted after
\* batch k, and a batch that failed before the send put no request on the
\* wire.
C4_NoResponseReturnsZero ==
    \A c \in Calls : \A k \in 1..Len(outs[c]) :
        outs[c][k].kind = "err" =>
            /\ k = Len(outs[c])
            /\ Returned(c)
            /\ ret[c].statusCode = 0
            /\ ret[c].err # NilErr
            /\ Len(Sent(c)) = IF outs[c][k].why \in {"marshal", "newrequest"}
                              THEN k - 1 ELSE k

C4_Witness ==
    \E c \in Calls :
        /\ Len(outs[c]) >= 2
        /\ Is2xx(outs[c][1].StatusCode)
        /\ Last(outs[c]).kind = "err" /\ Last(outs[c]).why = "marshal"
        /\ series[c] # <<>>
        /\ ret[c].statusCode = 0

\* the response that ended, or is the latest of, a write call
LastResponse(c) == Last(outs[c])
HasLastResponse(c) == outs[c] # <<>> /\ Last(outs[c]).kind = "resp"
Failed(c) == Returned(c) /\ ret[c].err # NilErr

\* C5 as stated: a response is a success exactly when its code is 2xx, and
\* every other response yields an error with the status line and the
\* (possibly truncated) body.
C5_EveryNon2xxCarriesBody ==
    \A c \in Calls :
        HasLastResponse(c) =>
            /\ Is2xx(LastResponse(c).StatusCode) <=> ~Failed(c)
            /\ Failed(c) =>
                  /\ ret[c].err.kind = "status"
                  /\ ret[c].err.status = LastResponse(c).Status
                  /\ IsPrefix(Unquote(ret[c].err.body), LastResponse(c).Body)

\* C5, amended: a response is a success exactly when its code is 2xx; every
\* other response yields an error with the status line, and with a prefix of
\* the body unless reading the body failed.
C5_SuccessIff2xx ==
    \A c \in Calls :
        HasLastResponse(c) =>
            /\ Is2xx(LastResponse(c).StatusCode) <=> ~Failed(c)
            /\ Failed(c) =>
                  /\ ret[c].err.status = LastResponse(c).Status
                  /\ ret[c].statusCode = LastResponse(c).StatusCode
                  /\ IF LastResponse(c).readFails
                     THEN ret[c].err.kind = "bodyread"
                     ELSE /\ ret[c].err.kind = "status"
                          /\ IsPrefix(Unquote(ret[c].err.body),
                                      LastResponse(c).Body)

C5_Witness ==
    \E c \in Calls :
        /\ HasLastResponse(c) /\ Failed(c)
        /\ LastResponse(c).StatusCode = 199
        /\ ret[c].err.kind = "status"

\* C6: the body in the error of a non-2xx response is the first min(L, 256)
\* bytes of the response body of length L.
C6_BodyCutAt256 ==
    \A c \in Calls :
        (HasLastResponse(c) /\ Failed(c) /\ ret[c].err.kind = "status") =>
            LET body == LastResponse(c).Body
                shown == Unquote(ret[c].err.body) IN
            /\ shown = SubSeq(body, 1, Min(Len(body), 256))
            /\ Len(body) > 256 => Len(shown) = 256
            /\ Len(body) <= 256 => shown = body

C6_Witness ==
    \E c \in Calls :
        /\ HasLastResponse(c) /\ Failed(c) /\ ret[c].err.kind = "status"
        /\ Len(LastResponse(c).Body) > 256
        /\ Len(Unquote(ret[c].err.body)) = 256
        /\ Len(ret[c].err.body) > 258

\* C7: every request on the wire carries exactly one X-Scope-OrgID value,
\* the configured tenant id, whatever it carried before.
C7_TenantHeaderOnEveryRequest ==
    \A i \in 1..Len(wire) :
        wire[i].req.Header["X-Scope-OrgID"] = <<cfg.TenantID>>

C7_Witness ==
    \E i, j \in 1..Len(wire) :
        /\ wire[i].kind = "direct"
        /\ Len(wire[i].prior) = 2 /\ wire[i].prior[1] # cfg.TenantID
        /\ wire[j].kind = "push"
        /\ cfg.TenantID = "team-a"

\* C8: NewClient with a nil write or read endpoint returns no client and an
\* error, and no request reaches the wire without both endpoints.
C8_NoClientWithoutEndpoints ==
    /\ (client.called
          /\ (cfg.WriteBaseEndpoint = NilURL \/ cfg.ReadBaseEndpoint = NilURL))
         => (client.ptr = <<>> /\ client.err # "nil")
    /\ (wire # <<>> \/ \E c \in Calls : pc[c] \notin {"idle", "off"})
         => (cfg.WriteBaseEndpoint # NilURL /\ cfg.ReadBaseEndpoint # NilURL)

C8_Witness ==
    /\ client.called
    /\ cfg.WriteBaseEndpoint = WriteURL /\ cfg.ReadBaseEndpoint = NilURL
    /\ client.ptr = <<>>
    /\ client.err = "the read endpoint has not been set"

\* C9: QueryRange returns an error and no matrix when the query failed, when
\* the value declares another type than matrix, or when it declares matrix
\* and is not a Matrix; it returns a matrix only with a nil error.
C9_MatrixOrError ==
    \A c \in Calls :
        pc[c] = "qdone" =>
            LET o == Last(outs[c]) IN
            /\ o.kind = "qerr" =>
                  (qret[c].matrix = <<>> /\ qret[c].err = o.why)
            /\ (o.kind = "value" /\ (o.Type # "matrix" \/ o.dyn # "Matrix"))
                  => (qret[c].matrix = <<>> /\ qret[c].err # "nil")
            /\ qret[c].matrix # <<>> =>
                  (qret[c].err = "nil" /\ qret[c].matrix = <<o.data>>)
            /\ (qret[c].matrix = <<>>) <=> (qret[c].err # "nil")

C9_Witness ==
    \E c \in Calls :
        /\ pc[c] = "qdone"
        /\ Last(outs[c]).Type = "matrix" /\ Last(outs[c]).dyn = "Other"
        /\ qret[c].err = "failed to cast type to Matrix"

\* C10: a client built from a command line that gives no batch size, write
\* timeout or read timeout works with 1000, 5s and 30s.
C10_DefaultsWhenUnset ==
    Built =>
        /\ flags.batch = <<>> =>
              /\ BatchSize = 1000
              /\ \A i \in 1..Len(wire) : wire[i].kind = "push" =>
                    Len(Decoded(wire[i].req.Body)) \in 1..1000
        /\ flags.wtimeout = <<>> =>
              /\ TheClient.cfg.WriteTimeout = 5
              /\ \A i \in 1..Len(wire) : wire[i].kind = "push" =>
                    wire[i].timeout = 5
        /\ flags.rtimeout = <<>> =>
              /\ TheClient.cfg.ReadTimeout = 30
              /\ \A i \in 1..Len(wire) : wire[i].kind = "query" =>
                    wire[i].timeout = 30

C10_Witness ==
    /\ Built
    /\ flags.batch = <<>> /\ flags.wtimeout = <<>> /\ flags.rtimeout = <<>>
    /\ \E i \in 1..Len(wire) :
          /\ wire[i].kind = "push"
          /\ Len(Decoded(wire[i].req.Body)) = 5
          /\ wire[i].timeout = 5

\* C11: every client NewClient returns has a batch size of at least 1.
C11_BatchSizePositive == Built => BatchSize >= 1

\* the samples a request carries
Carried(w) == Decoded(w.req.Body)

\* the set of elements of a sequence
Range(s) == { s[i] : i \in 1..Len(s) }

\* the network calls of a call that came back, failed ones included
Answered(c) ==
    SelectSeq(outs[c], LAMBDA o : o.why \notin {"marshal", "newrequest"})

\* an outcome after which a call cannot go on
IsFailure(o) ==
    o.kind \in {"err", "qerr"} \/ (o.kind = "resp" /\ ~Is2xx(o.StatusCode))

\* C12: no retry.  Every request a call hands to the transport is answered
\* once and never handed over again: the requests of a call are its
\* answered network calls plus the one in flight, no two of them carry a
\* common sample, a failed outcome is the last one of its call, and a query
\* call has exactly one request.
C12_NoRetry ==
    \A c \in Calls :
        /\ Len(Sent(c)) = Len(Answered(c))
                            + (IF pc[c] \in {"inflight", "qinflight"}
                               THEN 1 ELSE 0)
        /\ \A i, j \in 1..Len(Sent(c)) :
              i < j => Range(Carried(Sent(c)[i]))
                          \cap Range(Carried(Sent(c)[j])) = {}
        /\ \A k \in 1..Len(outs[c]) :
              IsFailure(outs[c][k]) =>
                  (k = Len(outs[c]) /\ pc[c] \in {"done", "qdone"})
        /\ pc[c] \in {"qinflight", "qdone"} => Len(Sent(c)) = 1

C12_Witness ==
    \E c \in Calls :
        /\ Len(outs[c]) = 3 /\ Len(Sent(c)) = 3
        /\ Last(outs[c]).kind = "err" /\ Last(outs[c]).why = "timeout"
        /\ Returned(c) /\ series[c] # <<>>

RECURSIVE Concat(_)
\* the samples of a sequence of requests, in the order they were sent
Concat(reqs) ==
    IF reqs = <<>> THEN <<>>
    ELSE Carried(Head(reqs)) \o Concat(Tail(reqs))

\* C18: at every point of a WriteSeries call the samples handed to the
\* transport are a prefix of the input, in input order; with a batch size
\* B >= 1 every request carries between 1 and B samples and every request
\* but the last one sent carries exactly B.
C18_SentIsPrefixOfInput ==
    \A c \in Calls :
        pc[c] \in {"loop", "inflight", "done", "panic"} =>
            /\ IsPrefix(Concat(Sent(c)), input[c])
            /\ BatchSize >= 1 =>
                  \A i \in 1..Len(Sent(c)) :
                      /\ Len(Carried(Sent(c)[i])) \in 1..BatchSize
                      /\ i < Len(Sent(c)) =>
                            Len(Carried(Sent(c)[i])) = BatchSize
                      /\ Carried(Sent(c)[i]) = Slice(input[c], i, BatchSize)

\* a call failed at its third batch and the two batches before it stay sent
C18_Witness ==
    \E c \in Calls :
        /\ Failed(c) /\ BatchSize = 2 /\ Len(input[c]) = 5
        /\ Len(Sent(c)) = 3 /\ Len(outs[c]) = 3
        /\ Concat(Sent(c)) = input[c]
        /\ ~Is2xx(Last(outs[c]).StatusCode)

\* C19: every loop iteration of WriteSeries strictly shrinks the remaining
\* input and never hands an empty batch to the transport, so that a call
\* returns after at most ceil(N/B) requests.
C19_EveryIterationShrinks ==
    [][\A c \in Calls :
          (pc[c] = "loop" /\ pc'[c] # "loop") =>
              /\ Len(series'[c]) < Len(series[c])
              /\ pc'[c] # "panic"
              /\ \A i \in 1..Len(Sent(c)') : Carried(Sent(c)'[i]) # <<>>]_vars

\* C20: a WriteSeries call returns a nil error exactly when every sample of
\* its input was sent and every request got a 2xx response; the status code
\* returned with a nil error is a 2xx code, or 0 for an empty input, for
\* which no request is sent.
C20_NilErrorIffAllSent ==
    \A c \in Calls :
        Returned(c) =>
            /\ ret[c].err = NilErr <=>
                  /\ Concat(Sent(c)) = input[c]
                  /\ Len(outs[c]) = Len(Sent(c))
                  /\ \A k \in 1..Len(outs[c]) :
                        outs[c][k].kind = "resp"
                            /\ Is2xx(outs[c][k].StatusCode)
            /\ ret[c].err = NilErr =>
                  IF input[c] = <<>>
                  THEN ret[c].statusCode = 0 /\ Sent(c) = <<>>
                  ELSE Is2xx(ret[c].statusCode)

\* an empty input returns (0, nil) with nothing on the wire
C20_Witness ==
    \E c \in Calls :
        /\ Returned(c) /\ input[c] = <<>>
        /\ ret[c] = [statusCode |-> 0, err |-> NilErr]
        /\ Sent(c) = <<>>

\* the requests of caller k (0: bare round trips) that went through RoundTrip
\* and on to the wrapped transport by way of http.Client.Do or directly
Through(k) ==
    SelectSeq(wire, LAMBDA w : w.call = k /\ w.kind \in {"push", "direct"})

\* C16: the tenant-scoped transport is pure decoration. Each RoundTrip hands
\* its request to the wrapped transport exactly once, the request that
\* arrives there differs from the one RoundTrip was given in the tenant
\* header only, and RoundTrip returns exactly the response or the error the
\* wrapped transport returned, whatever the status code.
C16_PureDecoration ==
    /\ \A i \in 1..Len(wire) :
          /\ wire[i].req.Method = wire[i].orig.Method
          /\ wire[i].req.URL = wire[i].orig.URL
          /\ wire[i].req.Body = wire[i].orig.Body
          /\ \A h \in HeaderNames \ {"X-Scope-OrgID"} :
                wire[i].req.Header[h] = wire[i].orig.Header[h]
    /\ \A k \in Calls \cup {0} :
          /\ \A i \in 1..Len(got[k]) : got[k][i].returned = got[k][i].inner
          /\ Len(Through(k)) =
                Len(got[k]) + (IF k # 0 /\ pc[k] = "inflight" THEN 1 ELSE 0)

\* a bare round trip got a 503 back as a response, and a later call got a
\* 2xx, then a transport error, through the same transport
C16_Witness ==
    /\ Len(got[0]) = 1
    /\ got[0][1].returned.kind = "resp" /\ got[0][1].returned.StatusCode = 503
    /\ wire[1].prior = <<"other", "team-a">>
    /\ \E c \in Calls :
          /\ Len(got[c]) = 2 /\ Len(Through(c)) = 2
          /\ Is2xx(got[c][1].returned.StatusCode)
          /\ got[c][2].returned = NoResponse("transport")

\* C17: WriteSeries leaves the caller's input as it was and keeps nothing of
\* it. From the start of a call on, and after it has returned with success
\* or with an error, the caller's slice has the length, the samples and the
\* order it had before the call; a request of a call carries samples of that
\* call's own input only, never of the input of an earlier call.
C17_InputUntouched ==
    /\ \A c \in Calls :
          pc[c] \in {"loop", "inflight", "done", "panic"} =>
              /\ Len(input[c]) = Len(given[c])
              /\ input[c] = given[c]
    /\ \A i \in 1..Len(wire) :
          wire[i].kind = "push" =>
              Range(Carried(wire[i])) \subseteq Range(given[wire[i].call])

\* caller 1 has returned an error after two batches, caller 2 has sent its
\* own samples afterwards and returned with success
C17_Witness ==
    /\ Failed(1) /\ Len(given[1]) = 2 /\ Len(Sent(1)) = 2
    /\ Returned(2) /\ ret[2].err = NilErr /\ Len(given[2]) = 2
    /\ Len(wire) >= 3
    /\ wire[1].call = 1 /\ wire[2].call = 1 /\ wire[3].call = 2
    /\ input[1] = given[1] /\ input[2] = given[2]

\* a call run alone: the result WriteSeries returns for input s when its
\* network calls end with the outcomes os, in order
RECURSIVE RunAlone(_, _, _, _)
RunAlone(s, batchSize, os, last) ==
    IF s = <<>>
    THEN [statusCode |-> last, err |-> NilErr, left |-> Len(os)]
    ELSE IF os = <<>>
    THEN [statusCode |-> last, err |-> NilErr, left |-> -1]
    ELSE LET r == SendResult(Head(os)) IN
         IF r.err # NilErr
         THEN [statusCode |-> r.statusCode, err |-> r.err,
               left |-> Len(os) - 1]
         ELSE RunAlone(Rest(s, BatchEnd(s, batchSize)), batchSize, Tail(os),
                       r.statusCode)

\* what each call has done is a function of its own input and of the answers
\* to its own requests
OwnWorkOnly ==
    \A c \in Calls :
        /\ pc[c] \in {"loop", "inflight", "done"} =>
              \A i \in 1..Len(Sent(c)) :
                  /\ Sent(c)[i].kind = "push"
                  /\ Carried(Sent(c)[i]) = Slice(given[c], i, BatchSize)
        /\ pc[c] = "done" =>
              LET alone == RunAlone(given[c], BatchSize, outs[c], 0) IN
              /\ alone.left = 0
              /\ ret[c] = [statusCode |-> alone.statusCode, err |-> alone.err]
        /\ pc[c] \in {"qinflight", "qdone"} =>
              /\ Len(Sent(c)) = 1
              /\ Sent(c)[1].req = RoundTrip(TheClient.rt, QueryRequest(TheClient))
        /\ pc[c] = "qdone" =>
              /\ Len(outs[c]) = 1
              /\ qret[c] = QueryResult(outs[c][1])

\* C13: calls that run side by side on one client do not interfere. After
\* NewClient the configuration and the client are never written; a step of
\* one call leaves the locals and the result of every other call alone;
\* each call sends exactly the slices of its own input, and returns what it
\* returns when run alone against the answers its own requests got.
C13_CallsDoNotInterfere ==
    [][/\ client.called => (client' = client /\ cfg' = cfg)
       /\ \A c, d \in Calls :
             (c # d /\ pc'[c] # pc[c]) =>
                 /\ pc'[d] = pc[d] /\ series'[d] = series[d]
                 /\ input'[d] = input[d] /\ ret'[d] = ret[d]
                 /\ lastStatusCode'[d] = lastStatusCode[d]
                 /\ qret'[d] = qret[d] /\ outs'[d] = outs[d]
                 /\ deadline'[d] = deadline[d]
       /\ OwnWorkOnly']_vars

\* two WriteSeries calls whose requests alternated on the wire have both
\* returned, one with an error and one with success
C13_Witness ==
    /\ Len(wire) = 4
    /\ wire[1].call = 1 /\ wire[2].call = 2
    /\ wire[3].call = 1 /\ wire[4].call = 2
    /\ \A i \in 1..4 : wire[i].kind = "push"
    /\ Failed(1) /\ ~Is2xx(ret[1].statusCode) /\ ret[1].statusCode # 0
    /\ Returned(2) /\ ret[2].err = NilErr

\* the caller of c has cancelled its context during the call
Cancelled(c) == cancelled[c] # NotCancelled

\* what holds of a WriteSeries call once its caller's context is cancelled
AfterCancel ==
    \A c \in Calls :
        (Cancelled(c) /\ pc[c] \in {"loop", "inflight", "done"}) =>
            /\ Len(outs[c]) <= cancelled[c] + 1
            /\ Len(Sent(c)) <= cancelled[c] + 1
            /\ \A k \in 1..Len(outs[c]) :
                  k > cancelled[c] =>
                      /\ outs[c][k].kind = "err"
                      /\ outs[c][k].why = "canceled"
            /\ \A i \in 1..Len(Sent(c)) :
                  Carried(Sent(c)[i]) = Slice(given[c], i, BatchSize)
            /\ pc[c] = "done" =>
                  /\ ret[c].err # NilErr
                  /\ ret[c].statusCode = 0
                  /\ Len(outs[c]) = cancelled[c] + 1

\* C14: when the caller's context is cancelled while batch k is in flight
\* (or between two batches), the request in flight ends with the context's
\* error, WriteSeries returns a non-nil error, no further batch is handed
\* to the transport, no request of the call succeeds from then on, and the
\* requests already on the wire stay as they are: none is sent again, none
\* is taken back.
C14_CancelEndsTheCall ==
    [][/\ AfterCancel'
       /\ IsPrefix(wire, wire')
       /\ \A c \in Calls :
             (Cancelled(c) /\ pc[c] = "inflight") => Sent(c)' = Sent(c)]_vars

\* cancelled while batch 2 of 3 was in flight: batch 1 stays delivered,
\* batch 2 ends with the context's error, batch 3 is never sent
C14_Witness ==
    \E c \in Calls :
        /\ Failed(c) /\ ret[c].statusCode = 0
        /\ BatchSize = 1 /\ Len(given[c]) = 3
        /\ cancelled[c] = 1
        /\ Len(Sent(c)) = 2 /\ Len(series[c]) = 1
        /\ Is2xx(outs[c][1].StatusCode)
        /\ outs[c][2] = NoResponse("canceled")
        /\ Carried(Sent(c)[1]) = <<given[c][1]>>

InFlight(c) == pc[c] \in {"inflight", "qinflight"}

\* every send has a deadline of its own, counted from its own start
OwnDeadlines ==
    /\ \A i \in 1..Len(wire) :
          /\ wire[i].kind = "push" =>
                wire[i].deadline = wire[i].at + TheClient.cfg.WriteTimeout
          /\ wire[i].kind = "query" =>
                wire[i].deadline = wire[i].at + TheClient.cfg.ReadTimeout
    /\ \A c \in Calls :
          IF InFlight(c)
          THEN deadline[c] = Last(Sent(c)).deadline
          ELSE deadline[c] = NoDeadline

\* C15: every network send is bounded by its own timeout. The deadline of a
\* write batch is the instant it is sent plus the write timeout, whatever
\* time earlier batches of the call took; the deadline of a query is the
\* instant it is sent plus the read timeout. A send still in flight at its
\* deadline ends with an error and ends its call with that error. A step of
\* one call, slow or not, changes neither the deadline nor the position of a
\* sibling call, and the passing of time changes no deadline.
C15_EverySendHasItsOwnDeadline ==
    [][/\ OwnDeadlines'
       /\ \A c \in Calls :
             (InFlight(c) /\ now >= deadline[c] /\ pc'[c] # pc[c]) =>
                 /\ Last(outs'[c]).kind \in {"err", "qerr"}
                 /\ pc[c] = "inflight" =>
                       (pc'[c] = "done" /\ ret'[c].err # NilErr)
                 /\ pc[c] = "qinflight" =>
                       (pc'[c] = "qdone" /\ qret'[c].err # "nil")
       /\ \A c, d \in Calls :
             (c # d /\ pc'[c] # pc[c]) =>
                 (deadline'[d] = deadline[d] /\ pc'[d] = pc[d])
       /\ now' # now => (deadline' = deadline /\ pc' = pc)]_vars

\* the second batch of a call, sent at instant 1, got its own deadline and
\* was answered at instant 2, when a deadline counted from the start of the
\* call had passed; the sibling's only send expired at instant 2 and ended
\* with an error
C15_Witness ==
    \E c, d \in Calls :
        /\ c # d /\ now = 2
        /\ Len(Sent(c)) >= 2 /\ Len(outs[c]) >= 2
        /\ Sent(c)[1].at = 0 /\ Sent(c)[1].deadline = 2
        /\ Sent(c)[2].at = 1 /\ Sent(c)[2].deadline = 3
        /\ outs[c][2].kind = "resp" /\ Is2xx(outs[c][2].StatusCode)
        /\ Failed(d) /\ outs[d] = <<NoResponse("timeout")>>
        /\ Sent(d)[1].deadline = 2

\* C21: cleanup runs on every exit of the release-docs script once its trap
\* is installed, and when the script has exited each repository is at the
\* commit it was at before the script ran: the website repository at its
\* own previous HEAD, the Mimir repository at its own previous HEAD.
C21_CleanupRestoresBothRepos ==
    line = "exited" =>
        /\ trap => cleanups >= 1
        /\ head[WEBSITE_DIR] = start[WEBSITE_DIR]
        /\ head[MIMIR_DIR] = start[MIMIR_DIR]

\* the Mimir half of it
MimirRestored == line = "exited" => head[MIMIR_DIR] = start[MIMIR_DIR]

\* cleanup runs whenever the script exits with the trap installed
CleanupRuns == (line = "exited" /\ trap) => cleanups >= 1

====
